---- MODULE Spec2Model ----
(***************************************************************************)
(* Model of the e-mail processing server: the scheduler loop of            *)
(* email_server.py (EmailServer.start, _process_emails, _signal_handler,   *)
(* main) and the credential cache, authentication and classify-and-move    *)
(* pass of email_reader_sdk.py (CachedTokenCredential, EmailReaderSDK).    *)
(*                                                                         *)
(* One action per stretch of code between two suspension points (await) of *)
(* the single asyncio task; the signal handler, the wall clock, the event  *)
(* loop's timer and a crash of the process are the environment.            *)
(***************************************************************************)
EXTENDS Integers, Sequences, FiniteSets, TLC

VARIABLES
    env,            \* os.environ after load_dotenv(): CLIENT_ID, TENANT_ID
    pc,             \* position of the process / of the task running main()
    running,        \* EmailServer.running
    shutdown_event, \* EmailServer.shutdown_event (asyncio.Event, set or not)
    handlers,       \* loop.add_signal_handler done for SIGINT, SIGTERM
    timeout,        \* the timeout given to the pending asyncio.wait_for (0: none)
    remaining,      \* what is left of that timeout on the loop's monotonic clock
    exitStatus,     \* exit status of the process (-1 while it runs)
    startAuth,      \* result of the startup call authenticate() "pending"/"ok"/"failed"
    authenticated,  \* EmailReaderSDK._authenticated
    token_file,     \* token.json: [exists, content]
    now,            \* time.time(), the wall clock
    call,           \* the AccessToken get_token gave the API call in flight
    persisted,      \* the credential last written completely to token.json
    saveOutcome,    \* how the save_token of authenticate() ended ("none": not run)
    nFolders,       \* remote mailbox: folders whose name matches the target folder
    folder_id,      \* folder_id of process_emails_by_subject (0: not assigned)
    subject_result, \* what process_emails_by_subject returned ("none": not yet)
    page,           \* messages: the page of inbox items fetched in this pass
    idx,            \* position of the for loop over messages
    moved_count,    \* moved_count of process_emails_by_subject
    moves,          \* what each move_message call of this pass returned
    passFailed,     \* some remote call of the current pass failed
    handlerPrinted  \* the signal handler has written its line to stdout

vars == <<env, pc, running, shutdown_event, handlers, timeout, remaining,
          exitStatus, startAuth, authenticated, token_file, now, call,
          persisted, saveOutcome, nFolders, folder_id, subject_result, page,
          idx, moved_count, moves, passFailed, handlerPrinted>>

(***************************************************************************)
(* Bounds of the model.                                                    *)
(***************************************************************************)
MaxNow == 2
MaxLife == 1
MaxPage == 1
MaxFolders == 2
MaxItems == 3

(***************************************************************************)
(* Program constants.                                                      *)
(***************************************************************************)
CHECK_INTERVAL_SECONDS == 30
ERROR_RETRY_SECONDS == 6

check_interval == CHECK_INTERVAL_SECONDS
error_retry_interval == ERROR_RETRY_SECONDS

\* Python's None, for an Optional[str].
None == "None"

(***************************************************************************)
(* token.json.  The file is a sequence of the chunks json.dump writes; a   *)
(* write that stops early leaves a prefix of them.                         *)
(***************************************************************************)
Tokens == {"tokA", "tokB"}

AccessToken(tok, exp) == [token |-> tok, expires_on |-> exp]

\* Optional[AccessToken]: None.
NoToken == [token |-> None, expires_on |-> 0]

LBrace == [k |-> "{", s |-> "", n |-> 0]
RBrace == [k |-> "}", s |-> "", n |-> 0]
StrField(key, v) == [k |-> key, s |-> v, n |-> 0]
IntField(key, v) == [k |-> key, s |-> "", n |-> v]

\* token.json: exists is os.path.exists, readable is whether open(.., "r")
\* succeeds, content is the text
NoFile == [exists |-> FALSE, readable |-> TRUE, content |-> <<>>]

\* json_dump with the expiry written under another key
json_dump_other_key(token) ==
    << LBrace,
       StrField("access_token", token.token),
       IntField("expires_at", token.expires_on),
       RBrace >>

\* json.dump({"access_token": token.token, "expires_on": token.expires_on}, f)
json_dump(token) ==
    << LBrace,
       StrField("access_token", token.token),
       IntField("expires_on", token.expires_on),
       RBrace >>

\* json.load(f) succeeds: the text is one complete object.
json_ok(content) ==
    /\ Len(content) >= 2
    /\ content[1] = LBrace
    /\ content[Len(content)] = RBrace
    /\ \A i \in 2..(Len(content) - 1) : content[i].k \notin {"{", "}"}

HasKey(content, key) == \E i \in 1..Len(content) : content[i].k = key

LastIdx(content, key) ==
    CHOOSE i \in 1..Len(content) :
        /\ content[i].k = key
        /\ \A j \in (i + 1)..Len(content) : content[j].k # key

\* token_data.get("access_token")
get_str(content, key) ==
    IF HasKey(content, key) THEN content[LastIdx(content, key)].s ELSE None

\* token_data.get("expires_on"); a missing key (None) is falsy like 0
get_int(content, key) ==
    IF HasKey(content, key) THEN content[LastIdx(content, key)].n ELSE 0

\* Python truthiness of an Optional[str]
Truthy(s) == s # None /\ s # ""

\* the comparison of line 49 with <= for <
StillValid_inclusive(current_time, expires_on) == current_time <= expires_on

\* the comparison of line 49
StillValid(current_time, expires_on) == current_time < expires_on

\* an exception leaving _get_cached_token, as seen by its caller
Raised == [token |-> "raised", expires_on |-> 0]

\* _get_cached_token without the try of lines 38-52: a failing open() or
\* json.load() reaches the caller
get_cached_token_no_except(file, current_time) ==
    IF file.exists /\ (~file.readable \/ ~json_ok(file.content))
    THEN Raised
    ELSE IF /\ file.exists
            /\ Truthy(get_str(file.content, "access_token"))
            /\ get_int(file.content, "expires_on") # 0
            /\ StillValid(current_time, get_int(file.content, "expires_on"))
         THEN AccessToken(get_str(file.content, "access_token"),
                          get_int(file.content, "expires_on"))
         ELSE NoToken

\* CachedTokenCredential._get_cached_token, with time.time() = current_time
get_cached_token(file, current_time) ==
    IF /\ file.exists
       /\ file.readable
       /\ json_ok(file.content)
       /\ Truthy(get_str(file.content, "access_token"))
       /\ get_int(file.content, "expires_on") # 0
       /\ StillValid(current_time, get_int(file.content, "expires_on"))
    THEN AccessToken(get_str(file.content, "access_token"),
                     get_int(file.content, "expires_on"))
    ELSE NoToken

\* What is on disk when the write of save_token stops after k chunks:
\* open(token_file, "w") has truncated the file, k chunks have reached it.
Written(token, k) ==
    [exists |-> TRUE, readable |-> TRUE,
     content |-> SubSeq(json_dump(token), 1, k)]

\* CachedTokenCredential.save_token: the file afterwards, for each way it can
\* go.  "ok": written and closed.  "open_error": open() raised, the file is
\* untouched.  "write_error": the write raised after k chunks.  In both error
\* cases the exception is caught and printed.  "crash": the process died
\* after k chunks.
SaveOutcomes == {"ok", "open_error", "write_error", "crash"}

save_token(file, token, outcome, k) ==
    CASE outcome = "ok" -> Written(token, Len(json_dump(token)))
      [] outcome = "open_error" -> file
      [] outcome = "write_error" -> Written(token, k)
      [] outcome = "crash" -> Written(token, k)

\* The device code credential of azure.identity: a fresh token that is
\* valid when issued, or an error.
ProviderTokens(current_time) ==
    { AccessToken(t, e) : t \in Tokens,
                          e \in (current_time + 1)..(current_time + MaxLife) }

\* What get_token gave a request: src is "cache" (the cached token),
\* "provider" (a token of the device code credential) or "error" (it raised).
NoCall == [src |-> "none", token |-> None, expires_on |-> 0]

Got(source, tok) ==
    [src |-> source, token |-> tok.token, expires_on |-> tok.expires_on]

TokenError == [src |-> "error", token |-> None, expires_on |-> 0]

\* get_token asking the device code credential without looking at the cache
get_token_provider_only(file, current_time) ==
    { Got("provider", t) : t \in ProviderTokens(current_time) }
        \cup { TokenError }

\* CachedTokenCredential.get_token: every result it can give
get_token(file, current_time) ==
    IF get_cached_token(file, current_time) # NoToken
    THEN { Got("cache", get_cached_token(file, current_time)) }
    ELSE { Got("provider", t) : t \in ProviderTokens(current_time) }
         \cup { TokenError }

\* What token.json can hold when the script starts: nothing, or a text left
\* by an earlier run or by hand: an object of up to two fields, whole or cut
\* short, readable or not.
FieldChunks ==
    { StrField("access_token", t) : t \in Tokens \cup {""} }
        \cup { IntField("expires_on", e) : e \in 0..(MaxNow + MaxLife) }

FieldSeqs == UNION { [1..n -> FieldChunks] : n \in 0..2 }

Texts ==
    UNION { { SubSeq(<<LBrace>> \o f \o <<RBrace>>, 1, k) : k \in 0..(Len(f) + 2) }
            : f \in FieldSeqs }

Files ==
    { NoFile } \cup
    { [exists |-> TRUE, readable |-> r, content |-> c] :
          r \in BOOLEAN, c \in Texts }

(***************************************************************************)
(* Subjects are sequences of characters, so that lower() and the substring *)
(* test of process_emails_by_subject are computed.                         *)
(***************************************************************************)
UpperChars == << "A", "B", "C", "D", "E", "F", "G", "H", "I", "J", "K", "L", "M",
                 "N", "O", "P", "Q", "R", "S", "T", "U", "V", "W", "X", "Y", "Z" >>
LowerChars == << "a", "b", "c", "d", "e", "f", "g", "h", "i", "j", "k", "l", "m",
                 "n", "o", "p", "q", "r", "s", "t", "u", "v", "w", "x", "y", "z" >>

LowerChar(c) ==
    IF \E i \in 1..Len(UpperChars) : UpperChars[i] = c
    THEN LowerChars[CHOOSE i \in 1..Len(UpperChars) : UpperChars[i] = c]
    ELSE c

\* a comparison that keeps the letter case
lower_as_is(str) == str

\* str.lower()
lower(str) == [i \in 1..Len(str) |-> LowerChar(str[i])]

\* a in b, for strings
Contains(a, b) ==
    \E i \in 0..(Len(b) - Len(a)) : SubSeq(b, i + 1, i + Len(a)) = a

\* The characters of the strings of the model (TLC cannot index a string).
Chars(str) ==
    CASE str = "daily stand up" ->
           << "d", "a", "i", "l", "y", " ", "s", "t", "a", "n", "d", " ", "u", "p" >>
      [] str = "RE: Daily Stand Up" ->
           << "R", "E", ":", " ", "D", "a", "i", "l", "y", " ",
              "S", "t", "a", "n", "d", " ", "U", "p" >>
      [] str = "Daily Standup" ->
           << "D", "a", "i", "l", "y", " ", "S", "t", "a", "n", "d", "u", "p" >>
      [] str = "standup" ->
           << "s", "t", "a", "n", "d", "u", "p" >>
      [] str = "Daily Standup Notes" ->
           << "D", "a", "i", "l", "y", " ", "S", "t", "a", "n", "d", "u", "p",
              " ", "N", "o", "t", "e", "s" >>
      [] str = "standup!!" ->
           << "s", "t", "a", "n", "d", "u", "p", "!", "!" >>
      [] str = "Stand Up" ->
           << "S", "t", "a", "n", "d", " ", "U", "p" >>
      [] OTHER -> << >>

\* the search term _process_emails passes, line 108
search_term == "daily stand up"

\* message.subject: a string or None
Subjects == { "RE: Daily Stand Up", "Daily Standup", None }

\* What messages.get() can answer: up to max items.  message.id is the
\* position of the item in the page, or 0 for None (an item without id is
\* only drawn with a matching subject).
PagesUpTo(max) ==
    UNION { { p \in [1..n -> [id : 0..n, subject : Subjects]] :
                \A i \in 1..n : /\ p[i].id \in {0, i}
                                /\ p[i].id = 0 =>
                                      p[i].subject = "RE: Daily Stand Up" }
            : n \in 0..max }

Pages == PagesUpTo(MaxPage)

\* the pages of the specification of one pass
LongPages == PagesUpTo(MaxItems)

\* a loop that asks for the subject only: line 348 without "and message.id"
Selected_without_id(message, term) ==
    /\ Truthy(message.subject)
    /\ Contains(lower(Chars(term)), lower(Chars(message.subject)))

\* lines 348-351: the item is one the loop tries to move
Selected(message, term) ==
    /\ Truthy(message.subject)
    /\ message.id # 0
    /\ Contains(lower(Chars(term)), lower(Chars(message.subject)))

\* the first position from i on whose item is selected, or 0
NextSelected(messages, i, term) ==
    IF \E j \in i..Len(messages) : Selected(messages[j], term)
    THEN CHOOSE j \in i..Len(messages) :
            /\ Selected(messages[j], term)
            /\ \A h \in i..(j - 1) : ~Selected(messages[h], term)
    ELSE 0

(***************************************************************************)
(* The process.                                                            *)
(***************************************************************************)
EnvValues == { None, "", "id" }

\* the check of line 74 with any() for all()
ConfigOK_any(e) == Truthy(e.CLIENT_ID) \/ Truthy(e.TENANT_ID)

\* all([self.client_id, self.tenant_id])
ConfigOK(e) == Truthy(e.CLIENT_ID) /\ Truthy(e.TENANT_ID)

\* positions at which a request of the Graph client is being made
ApiPcs == { "probe", "list_folders", "create_folder", "list_messages", "move",
            "unread_check" }

\* positions of a pass (_process_emails)
PassPcs == { "pass_begin", "list_folders", "create_folder", "list_messages",
             "move", "unread_check" }

\* the process has ended
EndPcs == { "aborted", "exited", "crashed" }

\* the task is suspended in an await that yields to the event loop: an HTTP
\* request in flight, or the wait_for of the sleep
Suspended ==
    \/ pc = "sleeping"
    \/ pc \in ApiPcs /\ call.src \in {"cache", "provider"}

Init ==
    /\ env \in [CLIENT_ID : EnvValues, TENANT_ID : EnvValues]
    /\ pc = "construct"
    /\ running = FALSE
    /\ shutdown_event = FALSE
    /\ handlers = FALSE
    /\ timeout = 0
    /\ remaining = 0
    /\ exitStatus = -1
    /\ startAuth = "pending"
    /\ authenticated = FALSE
    /\ token_file = NoFile
    /\ now = 0
    /\ call = NoCall
    /\ persisted = NoToken
    /\ saveOutcome = "none"
    /\ nFolders = 0
    /\ folder_id = 0
    /\ subject_result = "none"
    /\ page = <<>>
    /\ idx = 0
    /\ moved_count = 0
    /\ moves = <<>>
    /\ passFailed = FALSE
    /\ handlerPrinted = FALSE

\* a loop without the sleep of lines 72-79: the next pass follows at once
AfterPass_no_sleep ==
    /\ pc' = IF running THEN "pass_begin" ELSE "returned"
    /\ UNCHANGED <<timeout, remaining>>

\* lines 65-79 and 61: the pass has returned to start()
AfterPass ==
    IF running
    THEN /\ pc' = "sleeping"
         /\ timeout' = check_interval
         /\ remaining' = check_interval
    ELSE /\ pc' = "returned"
         /\ UNCHANGED <<timeout, remaining>>

\* messages is what this pass fetched and moved_count what the summary of
\* line 360 reported, until the pass has returned; the loop position is gone
\* when process_emails_by_subject returns
Locals(messages, i, moved) ==
    /\ IF pc' \in {"sleeping", "returned"}
       THEN page' = <<>> /\ idx' = 0
       ELSE /\ page' = messages
            /\ idx' = IF pc' = "unread_check" THEN 0 ELSE i
    /\ IF pc' \in {"sleeping", "returned"}
       THEN moved_count' = 0
       ELSE moved_count' = moved

\* line 354: the results of the move_message calls of this pass, in order,
\* until the pass has returned
Log(results) ==
    moves' = IF pc' \in {"sleeping", "returned"} THEN <<>> ELSE results

\* line 336: the id of the folder ensure_folder_exists returned, until the
\* pass has returned
Ensured(id) ==
    folder_id' = IF pc' \in {"sleeping", "returned"} THEN 0 ELSE id

\* lines 334, 342 and 361: what process_emails_by_subject returned to
\* _process_emails, which drops it (line 108), until the pass has returned
Returns(value) ==
    subject_result' = IF pc' \in {"sleeping", "returned"} THEN "none" ELSE value

\* line 361: "return moved_count > 0"
Moved(moved) == IF moved > 0 THEN "True" ELSE "False"

\* a test of line 333 that looks at the folder only
EnsureFailed_folder_only(found, id) == ~found

\* line 333: "if not folder or not folder.id"; id 0 is a folder whose id is
\* None or empty
EnsureFailed(found, id) == ~found \/ id = 0

\* an authenticate() that makes its request whatever the flag says
AfterAuthenticate_always_probes(flag, request) == "probe"

\* get_inbox_messages, line 213, and authenticate(), lines 102-112: with
\* _authenticated set authenticate() returns True at once and the caller goes
\* on to its own request; otherwise the request of authenticate() is made
AfterAuthenticate(flag, request) == IF flag THEN request ELSE "probe"

\* _process_emails without the test of line 110
AfterSubject_unchecked ==
    /\ pc' = AfterAuthenticate(authenticated, "unread_check")
    /\ UNCHANGED <<timeout, remaining>>

\* lines 110-113: process_emails_by_subject has returned to _process_emails
AfterSubject ==
    IF shutdown_event
    THEN AfterPass
    ELSE /\ pc' = AfterAuthenticate(authenticated, "unread_check")
         /\ UNCHANGED <<timeout, remaining>>

\* EmailServer() in main(): EmailReaderSDK.__init__ raises ValueError when an
\* identity parameter is missing; main() does not catch it, asyncio.run
\* re-raises and the interpreter exits with status 1.  Otherwise start()
\* runs up to the request of authenticate().
Construct ==
    /\ pc = "construct"
    /\ IF ConfigOK(env)
       THEN pc' = "probe" /\ UNCHANGED exitStatus
       ELSE pc' = "aborted" /\ exitStatus' = 1
    /\ UNCHANGED <<env, folder_id, subject_result, handlerPrinted, moves, running, shutdown_event, handlers, timeout, remaining,
                   startAuth, authenticated, token_file, now, call, persisted,
                   saveOutcome, nFolders, page, idx, moved_count, passFailed>>

\* A request of the Graph client asks the credential for a token before it
\* is sent (CachedTokenCredential.get_token).
AcquireToken ==
    /\ pc \in ApiPcs
    /\ call = NoCall
    /\ call' \in get_token(token_file, now)
    /\ UNCHANGED <<env, folder_id, subject_result, handlerPrinted, moves, pc, running, shutdown_event, handlers, timeout,
                   remaining, exitStatus, startAuth, authenticated, token_file,
                   now, persisted, saveOutcome, nFolders, page, idx,
                   moved_count, passFailed>>

\* authenticate() with a save_token that lets its exception out: the handler
\* of line 122 catches it and authenticate() returns False
ProbeDone_save_raises ==
    /\ pc = "probe"
    /\ call # NoCall
    /\ \E user \in {"user", "none", "error"} :
       \E token \in get_token(token_file, now) :
       \E outcome \in SaveOutcomes :
       \E k \in 0..(Len(json_dump(token)) - 1) :
          /\ call.src = "error" => user = "error"
          /\ IF user # "user" \/ token.src = "error"
             THEN /\ startAuth' = "failed"
                  /\ pc' = "auth_done"
                  /\ UNCHANGED <<authenticated, token_file, persisted,
                                 saveOutcome, exitStatus>>
             ELSE /\ token_file' = save_token(token_file, token, outcome, k)
                  /\ saveOutcome' = outcome
                  /\ persisted' =
                        CASE outcome = "ok" ->
                               AccessToken(token.token, token.expires_on)
                          [] outcome = "open_error" -> persisted
                          [] OTHER -> NoToken
                  /\ IF outcome = "crash"
                     THEN /\ pc' = "crashed"
                          /\ exitStatus' = 137
                          /\ UNCHANGED <<authenticated, startAuth>>
                     ELSE /\ pc' = "auth_done"
                          /\ authenticated' = (outcome = "ok")
                          /\ startAuth' =
                                IF outcome = "ok" THEN "ok" ELSE "failed"
                          /\ UNCHANGED exitStatus
    /\ call' = NoCall
    /\ UNCHANGED <<env, folder_id, subject_result, handlerPrinted, moves, running, shutdown_event, handlers, timeout, remaining,
                   now, nFolders, page, idx, moved_count, passFailed>>

\* an authenticate() that sets _authenticated before its request is answered
ProbeDone_flag_first ==
    /\ pc = "probe"
    /\ call # NoCall
    /\ \E user \in {"user", "none", "error"} :
       \E token \in get_token(token_file, now) :
       \E outcome \in SaveOutcomes :
       \E k \in 0..(Len(json_dump(token)) - 1) :
          /\ call.src = "error" => user = "error"
          /\ IF user # "user" \/ token.src = "error"
             THEN /\ startAuth' = "failed"
                  /\ pc' = "auth_done"
                  /\ authenticated' = TRUE
                  /\ UNCHANGED <<token_file, persisted, saveOutcome,
                                 exitStatus>>
             ELSE /\ token_file' = save_token(token_file, token, outcome, k)
                  /\ saveOutcome' = outcome
                  /\ persisted' =
                        CASE outcome = "ok" ->
                               AccessToken(token.token, token.expires_on)
                          [] outcome = "open_error" -> persisted
                          [] OTHER -> NoToken
                  /\ IF outcome = "crash"
                     THEN /\ pc' = "crashed"
                          /\ exitStatus' = 137
                          /\ UNCHANGED <<authenticated, startAuth>>
                     ELSE /\ pc' = "auth_done"
                          /\ authenticated' = TRUE
                          /\ startAuth' = "ok"
                          /\ UNCHANGED exitStatus
    /\ call' = NoCall
    /\ UNCHANGED <<env, folder_id, subject_result, handlerPrinted, moves, running, shutdown_event, handlers, timeout, remaining,
                   now, nFolders, page, idx, moved_count, passFailed>>

\* authenticate(), lines 112-126: the answer to client.me.get().  user is
\* "user", "none" (a falsy answer) or "error" (the request raised).
ProbeDone ==
    /\ pc = "probe"
    /\ call # NoCall
    /\ \E user \in {"user", "none", "error"} :
       \E token \in get_token(token_file, now) :
       \E outcome \in SaveOutcomes :
       \E k \in 0..(Len(json_dump(token)) - 1) :
          /\ call.src = "error" => user = "error"
          /\ IF user # "user" \/ token.src = "error"
             THEN /\ startAuth' = "failed"
                  /\ pc' = "auth_done"
                  /\ UNCHANGED <<authenticated, token_file, persisted,
                                 saveOutcome, exitStatus>>
             ELSE /\ token_file' = save_token(token_file, token, outcome, k)
                  /\ saveOutcome' = outcome
                  /\ persisted' =
                        CASE outcome = "ok" ->
                               AccessToken(token.token, token.expires_on)
                          [] outcome = "open_error" -> persisted
                          [] OTHER -> NoToken
                  /\ IF outcome = "crash"
                     THEN /\ pc' = "crashed"
                          /\ exitStatus' = 137
                          /\ UNCHANGED <<authenticated, startAuth>>
                     ELSE /\ pc' = "auth_done"
                          /\ authenticated' = TRUE
                          /\ startAuth' = "ok"
                          /\ UNCHANGED exitStatus
    /\ call' = NoCall
    /\ UNCHANGED <<env, folder_id, subject_result, handlerPrinted, moves, running, shutdown_event, handlers, timeout, remaining,
                   now, nFolders, page, idx, moved_count, passFailed>>

\* start() without the test of line 50: the loop is entered whatever
\* authenticate() returned
StartGate_unchecked ==
    /\ pc = "auth_done"
    /\ running' = TRUE
    /\ handlers' = TRUE
    /\ pc' = "pass_begin"
    /\ saveOutcome' = "none"
    /\ UNCHANGED <<env, folder_id, subject_result, handlerPrinted, moves, shutdown_event, timeout, remaining, exitStatus,
                   startAuth, authenticated, token_file, now, call, persisted,
                   nFolders, page, idx, moved_count, passFailed>>

\* start(), lines 50-61: return when authenticate() failed, else set running,
\* install the signal handlers and enter the loop.
StartGate ==
    /\ pc = "auth_done"
    /\ IF startAuth = "ok"
       THEN /\ running' = TRUE
            /\ handlers' = TRUE
            /\ pc' = "pass_begin"
       ELSE /\ pc' = "returned"
            /\ UNCHANGED <<running, handlers>>
    /\ saveOutcome' = "none"
    /\ UNCHANGED <<env, folder_id, subject_result, handlerPrinted, moves, shutdown_event, timeout, remaining, exitStatus,
                   startAuth, authenticated, token_file, now, call, persisted,
                   nFolders, page, idx, moved_count, passFailed>>

\* _process_emails, lines 101-108.  The print of line 102 is outside the try
\* block: when it raises (logs = "raise") the exception reaches the handler
\* of start(), lines 81-95, which sleeps for error_retry_interval.
PassBegin ==
    /\ pc = "pass_begin"
    /\ \E logs \in {"ok", "raise"} :
          IF logs = "raise"
          THEN /\ pc' = "sleeping"
               /\ timeout' = error_retry_interval
               /\ remaining' = error_retry_interval
               /\ passFailed' = TRUE
          ELSE /\ passFailed' = FALSE
               /\ IF shutdown_event
                  THEN AfterPass
                  ELSE /\ pc' = "list_folders"
                       /\ UNCHANGED <<timeout, remaining>>
    /\ Locals(<<>>, 0, 0)
    /\ Log(<<>>)
    /\ Ensured(0)
    /\ Returns("none")
    /\ UNCHANGED <<env, handlerPrinted, running, shutdown_event, handlers, exitStatus,
                   startAuth, authenticated, token_file, now, call, persisted,
                   saveOutcome, nFolders>>

\* ensure_folder_exists -> find_folder_by_name -> get_mail_folders, lines
\* 264-282, 296-305 and 332-339: the answer to mail_folders.get().  A failed
\* listing gives None, the folder is then "not found" and creation is tried.
\* A folder that is found is the first match of the listing, any of the
\* matching folders, and its id may be missing.
ListFoldersDone ==
    /\ pc = "list_folders"
    /\ call # NoCall
    /\ \E ok \in BOOLEAN :
       \E id \in 0..nFolders :
          /\ call.src = "error" => ~ok
          /\ ~(ok /\ nFolders > 0) => id = 0
          /\ passFailed' = (passFailed \/ ~ok)
          /\ IF ok /\ nFolders > 0
             THEN IF EnsureFailed(TRUE, id)
                  THEN /\ AfterSubject
                       /\ Returns("False")
                  ELSE /\ pc' = AfterAuthenticate(authenticated, "list_messages")
                       /\ UNCHANGED <<timeout, remaining>>
                       /\ Returns("none")
             ELSE /\ pc' = "create_folder"
                  /\ UNCHANGED <<timeout, remaining>>
                  /\ Returns("none")
          /\ Ensured(id)
    /\ Locals(page, idx, moved_count)
    /\ Log(moves)
    /\ call' = NoCall
    /\ UNCHANGED <<env, handlerPrinted, running, shutdown_event, handlers, exitStatus,
                   startAuth, authenticated, token_file, now, persisted,
                   saveOutcome, nFolders>>

\* create_folder, lines 284-294, and lines 305-312, 332-339: the answer to
\* mail_folders.post(): the folder created, whose id may be missing, or None.
\* Without a folder or an id process_emails_by_subject returns False.
CreateFolderDone ==
    /\ pc = "create_folder"
    /\ call # NoCall
    /\ \E ok \in BOOLEAN :
       \E id \in {0, nFolders + 1} :
          /\ call.src = "error" => ~ok
          /\ ok => nFolders < MaxFolders
          /\ ~ok => id = 0
          /\ passFailed' = (passFailed \/ ~ok)
          /\ nFolders' = IF ok THEN nFolders + 1 ELSE nFolders
          /\ IF EnsureFailed(ok, id)
             THEN /\ AfterSubject
                  /\ Returns("False")
             ELSE /\ pc' = AfterAuthenticate(authenticated, "list_messages")
                  /\ UNCHANGED <<timeout, remaining>>
                  /\ Returns("none")
          /\ Ensured(id)
    /\ Locals(page, idx, moved_count)
    /\ Log(moves)
    /\ call' = NoCall
    /\ UNCHANGED <<env, handlerPrinted, running, shutdown_event, handlers, exitStatus,
                   startAuth, authenticated, token_file, now, persisted,
                   saveOutcome>>

\* get_inbox_messages (authenticate() returns True at once: _authenticated is
\* set), lines 205-241, and lines 339-351: the answer to messages.get().
\* None or an empty page ends process_emails_by_subject; otherwise the loop
\* runs to the first selected item and requests its move.
ListMessages(pages) ==
    /\ pc = "list_messages"
    /\ call # NoCall
    /\ \E ok \in BOOLEAN :
       \E messages \in pages :
          /\ call.src = "error" => ~ok
          /\ ~ok => messages = <<>>
          /\ passFailed' = (passFailed \/ ~ok)
          /\ IF NextSelected(messages, 1, search_term) # 0
             THEN /\ pc' = "move"
                  /\ UNCHANGED <<timeout, remaining>>
                  /\ Returns("none")
             ELSE /\ AfterSubject
                  /\ Returns("False")
          /\ Locals(messages, NextSelected(messages, 1, search_term),
                    moved_count)
          /\ Log(moves)
          /\ Ensured(folder_id)
    /\ call' = NoCall
    /\ UNCHANGED <<env, handlerPrinted, running, shutdown_event, handlers, exitStatus,
                   startAuth, authenticated, token_file, now, persisted,
                   saveOutcome, nFolders>>

ListMessagesDone == ListMessages(Pages)

\* the loop of lines 347-358 left at the first move that fails
MoveDone_abort_on_failure ==
    /\ pc = "move"
    /\ call # NoCall
    /\ \E ok \in BOOLEAN :
          /\ call.src = "error" => ~ok
          /\ passFailed' = (passFailed \/ ~ok)
          /\ IF ok /\ NextSelected(page, idx + 1, search_term) # 0
             THEN /\ pc' = "move"
                  /\ UNCHANGED <<timeout, remaining>>
                  /\ Returns("none")
             ELSE /\ AfterSubject
                  /\ Returns(Moved(IF ok THEN moved_count + 1 ELSE moved_count))
          /\ Locals(page, NextSelected(page, idx + 1, search_term),
                    IF ok THEN moved_count + 1 ELSE moved_count)
          /\ Log(Append(moves, [item |-> idx, dest |-> folder_id, ok |-> ok]))
          /\ Ensured(folder_id)
    /\ call' = NoCall
    /\ UNCHANGED <<env, handlerPrinted, running, shutdown_event, handlers, exitStatus,
                   startAuth, authenticated, token_file, now, persisted,
                   saveOutcome, nFolders>>

\* move_message, lines 314-326, and the loop, lines 347-361: the answer to
\* move.post() for page[idx]; the loop goes on to the next selected item.
MoveDone ==
    /\ pc = "move"
    /\ call # NoCall
    /\ \E ok \in BOOLEAN :
          /\ call.src = "error" => ~ok
          /\ passFailed' = (passFailed \/ ~ok)
          /\ IF NextSelected(page, idx + 1, search_term) # 0
             THEN /\ pc' = "move"
                  /\ UNCHANGED <<timeout, remaining>>
                  /\ Returns("none")
             ELSE /\ AfterSubject
                  /\ Returns(Moved(IF ok THEN moved_count + 1 ELSE moved_count))
          /\ Locals(page, NextSelected(page, idx + 1, search_term),
                    IF ok THEN moved_count + 1 ELSE moved_count)
          /\ Log(Append(moves, [item |-> idx, dest |-> folder_id, ok |-> ok]))
          /\ Ensured(folder_id)
    /\ call' = NoCall
    /\ UNCHANGED <<env, handlerPrinted, running, shutdown_event, handlers, exitStatus,
                   startAuth, authenticated, token_file, now, persisted,
                   saveOutcome, nFolders>>

\* an unread check whose failure is not caught: it reaches the handler of
\* start(), lines 81-95, which sleeps for error_retry_interval
UnreadDone_raises ==
    /\ pc = "unread_check"
    /\ call # NoCall
    /\ \E ok \in BOOLEAN :
          /\ call.src = "error" => ~ok
          /\ passFailed' = (passFailed \/ ~ok)
          /\ IF ok
             THEN AfterPass
             ELSE /\ pc' = "sleeping"
                  /\ timeout' = error_retry_interval
                  /\ remaining' = error_retry_interval
    /\ Locals(page, idx, moved_count)
    /\ Log(moves)
    /\ Ensured(folder_id)
    /\ Returns(subject_result)
    /\ call' = NoCall
    /\ UNCHANGED <<env, handlerPrinted, running, shutdown_event, handlers, exitStatus,
                   startAuth, authenticated, token_file, now, persisted,
                   saveOutcome, nFolders>>

\* get_inbox_messages(filter_unread=True), lines 113-120: the answer to the
\* unread check; its failure is caught in get_inbox_messages.  The pass then
\* returns to start().
UnreadDone ==
    /\ pc = "unread_check"
    /\ call # NoCall
    /\ \E ok \in BOOLEAN :
          /\ call.src = "error" => ~ok
          /\ passFailed' = (passFailed \/ ~ok)
    /\ AfterPass
    /\ Locals(page, idx, moved_count)
    /\ Log(moves)
    /\ Ensured(folder_id)
    /\ Returns(subject_result)
    /\ call' = NoCall
    /\ UNCHANGED <<env, handlerPrinted, running, shutdown_event, handlers, exitStatus,
                   startAuth, authenticated, token_file, now, persisted,
                   saveOutcome, nFolders>>

\* a sleep that does not watch the event (asyncio.sleep(timeout))
WaitDone_timeout_only(event, left) == left = 0

\* asyncio.wait_for(self.shutdown_event.wait(), timeout) is over: the event is
\* set, or the timeout has run out.
WaitDone(event, left) == event \/ left = 0

\* the loop's clock advances while the task sleeps
SleepTick ==
    /\ pc = "sleeping"
    /\ ~WaitDone(shutdown_event, remaining)
    /\ remaining > 0
    /\ remaining' = remaining - 1
    /\ UNCHANGED <<env, folder_id, subject_result, handlerPrinted, moves, pc, running, shutdown_event, handlers, timeout,
                   exitStatus, startAuth, authenticated, token_file, now, call,
                   persisted, saveOutcome, nFolders, page, idx, moved_count,
                   passFailed>>

\* the loop with break after the except clause as well: it ends after the
\* first sleep
SleepEnd_always_break ==
    /\ pc = "sleeping"
    /\ WaitDone(shutdown_event, remaining)
    /\ pc' = "returned"
    /\ timeout' = 0
    /\ remaining' = 0
    /\ UNCHANGED <<env, folder_id, subject_result, handlerPrinted, moves, running, shutdown_event, handlers, exitStatus,
                   startAuth, authenticated, token_file, now, call, persisted,
                   saveOutcome, nFolders, page, idx, moved_count, passFailed>>

\* lines 72-79 and 88-95, then line 61: the wait returned (break) or timed
\* out (pass, and the loop condition is tested)
SleepEnd ==
    /\ pc = "sleeping"
    /\ WaitDone(shutdown_event, remaining)
    /\ IF shutdown_event
       THEN pc' = "returned"
       ELSE IF running THEN pc' = "pass_begin" ELSE pc' = "returned"
    /\ timeout' = 0
    /\ remaining' = 0
    /\ UNCHANGED <<env, folder_id, subject_result, handlerPrinted, moves, running, shutdown_event, handlers, exitStatus,
                   startAuth, authenticated, token_file, now, call, persisted,
                   saveOutcome, nFolders, page, idx, moved_count, passFailed>>

\* a handler that sets the event and leaves running as it is
Signal_event_only ==
    /\ handlers
    /\ Suspended
    /\ handlerPrinted' = TRUE
    /\ UNCHANGED running
    /\ shutdown_event' = TRUE
    /\ UNCHANGED <<env, folder_id, subject_result, moves, pc, handlers, timeout, remaining, exitStatus,
                   startAuth, authenticated, token_file, now, call, persisted,
                   saveOutcome, nFolders, page, idx, moved_count, passFailed>>

\* _signal_handler, lines 122-126, run by the event loop for SIGINT or
\* SIGTERM while the task is suspended: it prints its line, clears running
\* and sets the event
Signal ==
    /\ handlers
    /\ Suspended
    /\ handlerPrinted' = TRUE
    /\ running' = FALSE
    /\ shutdown_event' = TRUE
    /\ UNCHANGED <<env, folder_id, subject_result, moves, pc, handlers, timeout, remaining, exitStatus,
                   startAuth, authenticated, token_file, now, call, persisted,
                   saveOutcome, nFolders, page, idx, moved_count, passFailed>>

\* main() ending with sys.exit(1) after stop()
MainFinally_exit_1 ==
    /\ pc = "returned"
    /\ running' = FALSE
    /\ shutdown_event' = TRUE
    /\ pc' = "exited"
    /\ exitStatus' = 1
    /\ UNCHANGED <<env, folder_id, subject_result, handlerPrinted, moves, handlers, timeout, remaining, startAuth,
                   authenticated, token_file, now, call, persisted,
                   saveOutcome, nFolders, page, idx, moved_count, passFailed>>

\* main(), lines 143-144: start() returned; stop() runs, asyncio.run returns
\* and the script ends
MainFinally ==
    /\ pc = "returned"
    /\ running' = FALSE
    /\ shutdown_event' = TRUE
    /\ pc' = "exited"
    /\ exitStatus' = 0
    /\ UNCHANGED <<env, folder_id, subject_result, handlerPrinted, moves, handlers, timeout, remaining, startAuth,
                   authenticated, token_file, now, call, persisted,
                   saveOutcome, nFolders, page, idx, moved_count, passFailed>>

\* the process is killed (outside save_token: the file is as it was); what
\* it held in memory is gone
Crash ==
    /\ pc \notin EndPcs
    /\ pc' = "crashed"
    /\ exitStatus' = 137
    /\ running' = FALSE
    /\ shutdown_event' = FALSE
    /\ handlers' = FALSE
    /\ timeout' = 0
    /\ remaining' = 0
    /\ authenticated' = FALSE
    /\ call' = NoCall
    /\ page' = <<>>
    /\ idx' = 0
    /\ moved_count' = 0
    /\ moves' = <<>>
    /\ passFailed' = FALSE
    /\ handlerPrinted' = FALSE
    /\ folder_id' = 0
    /\ subject_result' = "none"
    /\ UNCHANGED <<env, startAuth, token_file, now, persisted, saveOutcome,
                   nFolders>>

\* the script is run again: a new process, the same token.json and mailbox
Restart ==
    /\ pc \in EndPcs
    /\ env' \in [CLIENT_ID : EnvValues, TENANT_ID : EnvValues]
    /\ pc' = "construct"
    /\ running' = FALSE
    /\ shutdown_event' = FALSE
    /\ handlers' = FALSE
    /\ timeout' = 0
    /\ remaining' = 0
    /\ exitStatus' = -1
    /\ startAuth' = "pending"
    /\ authenticated' = FALSE
    /\ call' = NoCall
    /\ page' = <<>>
    /\ idx' = 0
    /\ moved_count' = 0
    /\ moves' = <<>>
    /\ passFailed' = FALSE
    /\ handlerPrinted' = FALSE
    /\ folder_id' = 0
    /\ subject_result' = "none"
    /\ saveOutcome' = "none"
    /\ UNCHANGED <<token_file, now, persisted, nFolders>>

\* time.time() advances
Tick ==
    /\ now < MaxNow
    /\ now' = now + 1
    /\ UNCHANGED <<env, folder_id, subject_result, handlerPrinted, moves, pc, running, shutdown_event, handlers, timeout,
                   remaining, exitStatus, startAuth, authenticated, token_file,
                   call, persisted, saveOutcome, nFolders, page, idx,
                   moved_count, passFailed>>

\* the steps of the program itself
Program ==
    \/ Construct
    \/ AcquireToken
    \/ ProbeDone
    \/ StartGate
    \/ PassBegin
    \/ ListFoldersDone
    \/ CreateFolderDone
    \/ ListMessagesDone
    \/ MoveDone
    \/ UnreadDone
    \/ SleepTick
    \/ SleepEnd
    \/ MainFinally

Next ==
    \/ Program
    \/ Signal
    \/ Crash
    \/ Restart
    \/ Tick

Spec == Init /\ [][Next]_vars

\* A request made by a process that found token.json as an earlier run, or
\* anything else, left it.
CacheInit ==
    /\ env = [CLIENT_ID |-> "id", TENANT_ID |-> "id"]
    /\ pc = "probe"
    /\ running = FALSE
    /\ shutdown_event = FALSE
    /\ handlers = FALSE
    /\ timeout = 0
    /\ remaining = 0
    /\ exitStatus = -1
    /\ startAuth = "pending"
    /\ authenticated = FALSE
    /\ token_file \in Files
    /\ now \in 0..MaxNow
    /\ call = NoCall
    /\ persisted = NoToken
    /\ saveOutcome = "none"
    /\ nFolders = 0
    /\ folder_id = 0
    /\ subject_result = "none"
    /\ page = <<>>
    /\ idx = 0
    /\ moved_count = 0
    /\ moves = <<>>
    /\ passFailed = FALSE
    /\ handlerPrinted = FALSE

CacheNext == AcquireToken

CacheSpec == CacheInit /\ [][CacheNext]_vars

\* One pass of a server that has started: token.json holds the token the
\* startup stored, valid for the whole pass.
PassInit ==
    /\ env = [CLIENT_ID |-> "id", TENANT_ID |-> "id"]
    /\ pc = "pass_begin"
    /\ running = TRUE
    /\ shutdown_event = FALSE
    /\ handlers = TRUE
    /\ timeout = 0
    /\ remaining = 0
    /\ exitStatus = -1
    /\ startAuth = "ok"
    /\ authenticated = TRUE
    /\ token_file = Written(AccessToken("tokA", MaxLife), Len(json_dump(NoToken)))
    /\ now = 0
    /\ call = NoCall
    /\ persisted = AccessToken("tokA", MaxLife)
    /\ saveOutcome = "none"
    /\ nFolders \in 0..MaxFolders
    /\ folder_id = 0
    /\ subject_result = "none"
    /\ page = <<>>
    /\ idx = 0
    /\ moved_count = 0
    /\ moves = <<>>
    /\ passFailed = FALSE
    /\ handlerPrinted = FALSE

PassListMessagesDone == ListMessages(LongPages)

PassNext ==
    \/ AcquireToken
    \/ PassBegin
    \/ ListFoldersDone
    \/ CreateFolderDone
    \/ PassListMessagesDone
    \/ MoveDone
    \/ UnreadDone
    \/ Signal

PassSpec == PassInit /\ [][PassNext]_vars

\* _process_emails called on a server that runs, or on one that stop() has
\* stopped (running cleared, the event set, nothing printed).
CallInit ==
    /\ env = [CLIENT_ID |-> "id", TENANT_ID |-> "id"]
    /\ pc = "pass_begin"
    /\ running \in BOOLEAN
    /\ shutdown_event = ~running
    /\ handlers = TRUE
    /\ timeout = 0
    /\ remaining = 0
    /\ exitStatus = -1
    /\ startAuth = "ok"
    /\ authenticated = TRUE
    /\ token_file = Written(AccessToken("tokA", MaxLife), Len(json_dump(NoToken)))
    /\ now = 0
    /\ call = NoCall
    /\ persisted = AccessToken("tokA", MaxLife)
    /\ saveOutcome = "none"
    /\ nFolders \in 0..MaxFolders
    /\ folder_id = 0
    /\ subject_result = "none"
    /\ page = <<>>
    /\ idx = 0
    /\ moved_count = 0
    /\ moves = <<>>
    /\ passFailed = FALSE
    /\ handlerPrinted = FALSE

CallSpec == CallInit /\ [][PassNext]_vars

\* One run of the script, from a first start: the event loop runs the task
\* whenever it can run, timers fire, and every request is answered.  The
\* wall clock is held: the loop does not read it.
Run ==
    \/ Program
    \/ Signal

FairSpec == Init /\ [][Run]_vars /\ WF_vars(Program)

(***************************************************************************)
(* Properties.                                                             *)
(***************************************************************************)

\* positions inside the loop of start()
LoopPcs == PassPcs \cup {"sleeping"}

\* a step in which a request consults the credential cache (load)
LoadStep == pc \in ApiPcs /\ call = NoCall /\ call' # NoCall

\* C1: the sleep that follows a pass uses error_retry_interval when a failure
\* occurred during the pass (a failed folder, listing, unread or move request,
\* or an exception of the pass) and check_interval when none occurred.
C1_SleepFollowsPassOutcome ==
    pc = "sleeping" =>
        timeout = IF passFailed THEN error_retry_interval ELSE check_interval

\* C2: once shutdown_event is set during a sleep (success or error sleep, any
\* remaining duration), no more of the timeout elapses, the sleep ends with the
\* loop left, and start() having returned, no pass is started.
C2_CancelEndsSleepAtOnce ==
    [][ /\ (pc = "sleeping" /\ shutdown_event /\ pc' # "crashed") =>
            /\ pc' \in {"sleeping", "returned"}
            /\ pc' = "sleeping" => remaining' = remaining
        /\ (pc = "returned" /\ pc' # "crashed") =>
            pc' \in {"returned", "exited"} ]_vars

\* C2 witness: the event was set in the middle of a sleep
C2_Witness ==
    /\ pc = "sleeping"
    /\ shutdown_event
    /\ 0 < remaining
    /\ remaining < timeout

\* C3: when the startup authenticate() has failed, running is not set, no
\* signal handler is installed and the process is at no position of the loop
\* (no pass, no sleep).
C3_AuthFailureNeverEntersLoop ==
    startAuth = "failed" =>
        /\ ~running
        /\ ~handlers
        /\ pc \notin LoopPcs
        /\ timeout = 0

\* C3 witness: the process ended after a failed startup authentication
C3_Witness == startAuth = "failed" /\ pc = "exited"

\* C4: a process that ends after a failed startup authentication has a
\* non-zero exit status.
C4_AuthFailureExitsNonZero ==
    (startAuth = "failed" /\ pc = "exited") => exitStatus # 0

\* C5: with CLIENT_ID or TENANT_ID missing, construction fails: the process
\* is never past the constructor (no authentication request, no pass, no
\* sleep), and it aborts with a non-zero status.
C5_MissingConfigAborts ==
    (env.CLIENT_ID = None \/ env.TENANT_ID = None) =>
        /\ pc \in {"construct", "aborted", "crashed"}
        /\ startAuth = "pending"
        /\ call = NoCall
        /\ ~running
        /\ pc = "aborted" => exitStatus = 1

\* C5 witness: the process aborted with only TENANT_ID missing
C5_Witness ==
    /\ env.CLIENT_ID = "id"
    /\ env.TENANT_ID = None
    /\ pc = "aborted"
    /\ exitStatus = 1

\* C6: in the loop, unless the cancellation signal arrives (or the process
\* is killed), every sleep is followed by another pass and every pass,
\* failed or not, by a sleep: passes recur for ever.
C6_PassesRecur ==
    /\ (pc = "sleeping") ~>
          \/ pc = "pass_begin"
          \/ pc = "sleeping" /\ shutdown_event
          \/ pc = "crashed"
    /\ (pc \in PassPcs) ~>
          \/ pc = "sleeping"
          \/ pc \in PassPcs /\ shutdown_event
          \/ pc = "crashed"

\* C6 witness: a pass begins after a pass in which a failure occurred
C6_Witness == pc = "pass_begin" /\ passFailed /\ ~shutdown_event

\* C7: once a signal has been handled in the loop, start() eventually
\* returns with running false and the process exits with status 0 (unless it
\* is killed first); after start() has returned there is no pass and no sleep.
C7_SignalLeadsToCleanExit ==
    /\ (handlers /\ shutdown_event) ~>
          \/ pc = "exited" /\ exitStatus = 0
          \/ pc = "crashed"
    /\ [](pc \in {"returned", "exited"} => ~running)
    /\ [][ (pc \in {"returned", "exited"}) => (pc' \notin LoopPcs) ]_vars

\* C7 witness: the loop was entered and the process has exited with status 0
C7_Witness ==
    /\ pc = "exited"
    /\ startAuth = "ok"
    /\ handlers
    /\ exitStatus = 0

\* C8: when the slot holds a credential c, a request gets its token from the
\* cache exactly when now < c.expires_on (not at now = c.expires_on), and a
\* token taken from the cache has not expired.
C8_CacheValidIffNotExpired ==
    [][ LoadStep =>
          /\ persisted # NoToken =>
                (call'.src = "cache" <=> now < persisted.expires_on)
          /\ call'.src = "cache" => now < call'.expires_on ]_vars

\* C8 witness: a request made at now = c.expires_on did not get the cached
\* token
C8_Witness ==
    /\ pc \in ApiPcs
    /\ call.src = "provider"
    /\ persisted # NoToken
    /\ now = persisted.expires_on

\* C9 as stated: whenever the slot holds a stored credential c, a load
\* yields c's token and expiry.
C9_RoundTripAlways ==
    [][ (LoadStep /\ persisted # NoToken) =>
          /\ call'.src = "cache"
          /\ call'.token = persisted.token
          /\ call'.expires_on = persisted.expires_on ]_vars

\* C9 amended: when the slot holds a stored credential c, a load made while
\* now < c.expires_on yields c's token and expiry, and a load made later
\* yields none.
C9_RoundTripWhileValid ==
    [][ (LoadStep /\ persisted # NoToken) =>
          IF now < persisted.expires_on
          THEN /\ call'.src = "cache"
               /\ call'.token = persisted.token
               /\ call'.expires_on = persisted.expires_on
          ELSE call'.src # "cache" ]_vars

\* C9 witness: a request got from the cache the credential that was stored
C9_Witness ==
    /\ pc \in PassPcs
    /\ call.src = "cache"
    /\ call.token = persisted.token
    /\ call.expires_on = persisted.expires_on

\* the slot holds one complete entry
SlotComplete ==
    /\ json_ok(token_file.content)
    /\ HasKey(token_file.content, "access_token")
    /\ HasKey(token_file.content, "expires_on")

\* C10: after a crash during save_token the slot holds a complete entry (the
\* previous one or the new one), never an empty or partly written one.
C10_StoreIsAtomic ==
    (saveOutcome = "crash" /\ token_file.exists) => SlotComplete

\* the slot gives load nothing to return: no file, a file that cannot be
\* opened, a text that does not parse, or an object without the token or the
\* expiry field
Unusable(file) ==
    \/ ~file.exists
    \/ ~file.readable
    \/ ~json_ok(file.content)
    \/ ~HasKey(file.content, "access_token")
    \/ ~HasKey(file.content, "expires_on")

\* C11: a request that finds token.json missing, unreadable or malformed
\* gets no exception from load: load gives None and get_token gives what the
\* device code credential gives (a fresh token, or that credential's error).
C11_LoadNeverRaises ==
    [][ (LoadStep /\ Unusable(token_file)) =>
          /\ get_cached_token(token_file, now) = NoToken
          /\ call' \in { Got("provider", t) : t \in ProviderTokens(now) }
                          \cup { TokenError } ]_vars

\* C11 witness: a request got a fresh token although token.json exists and
\* holds a text cut short
C11_Witness ==
    /\ call.src = "provider"
    /\ token_file.exists
    /\ token_file.readable
    /\ Len(token_file.content) > 0
    /\ ~json_ok(token_file.content)

\* the save_token of authenticate() failed: open() or the write raised
SaveFailed == saveOutcome \in {"open_error", "write_error"}

\* C12: when save_token fails in an authenticate() whose request succeeded,
\* authenticate() still returns True with the flag set, and start() goes on
\* to set running, install the handlers and enter the loop (unless the
\* process is killed first).
C12_SaveFailureIsNotFatal ==
    /\ []((SaveFailed /\ pc # "crashed") =>
            (pc = "auth_done" /\ startAuth = "ok" /\ authenticated))
    /\ [][ (SaveFailed /\ pc = "auth_done" /\ pc' \notin {"auth_done", "crashed"}) =>
              (pc' = "pass_begin" /\ running' /\ handlers') ]_vars

\* C12 witness: the loop is entered with token.json left cut short by the
\* failed save_token of this run
C12_Witness ==
    /\ pc = "pass_begin"
    /\ running
    /\ startAuth = "ok"
    /\ token_file.exists
    /\ ~json_ok(token_file.content)

\* token.json holds an entry that is valid now
CacheHolds(tok) ==
    /\ token_file.exists
    /\ token_file.readable
    /\ json_ok(token_file.content)
    /\ tok.token = get_str(token_file.content, "access_token")
    /\ tok.expires_on = get_int(token_file.content, "expires_on")
    /\ Truthy(tok.token)
    /\ now < tok.expires_on

\* C13: every request, at startup and in every pass, that finds a valid
\* entry in token.json is given that entry and the device code credential is
\* not asked; the get_token of line 116 does the same, so that a successful
\* save rewrites that entry.
C13_CacheConsultedFirst ==
    [][ \A t \in Tokens : \A e \in 1..(MaxNow + MaxLife) :
          CacheHolds(AccessToken(t, e)) =>
             /\ LoadStep => call' = Got("cache", AccessToken(t, e))
             /\ (pc = "probe" /\ call # NoCall /\ saveOutcome' = "ok") =>
                   persisted' = AccessToken(t, e) ]_vars

\* C13 witness: a move request of a pass was given the cached token
C13_Witness ==
    /\ pc = "move"
    /\ call.src = "cache"
    /\ CacheHolds(AccessToken(call.token, call.expires_on))

\* C14: a token a request got from the device code credential is in
\* token.json by the time the request has it.
C14_FreshTokenIsStored ==
    (pc \in ApiPcs /\ call.src = "provider") =>
        /\ persisted = AccessToken(call.token, call.expires_on)
        /\ get_str(token_file.content, "access_token") = call.token

\* C15: once the folder exists, an ensure_folder_exists for the same name
\* creates nothing and returns the existing folder (the pass goes on to list
\* the messages), so that there is never more than one folder of that name.
C15_EnsureIsIdempotent ==
    /\ [](nFolders <= 1)
    /\ [][ (/\ pc = "list_folders"
            /\ call # NoCall
            /\ nFolders = 1
            /\ pc' \notin {"list_folders", "crashed"}) =>
              (pc' = "list_messages" /\ nFolders' = 1) ]_vars

\* the positions up to n of the fetched page whose item the loop selects
SelectedUpTo(n) == { j \in 1..n : Selected(page[j], search_term) }

\* the move_message calls made so far are those for the selected items up to
\* position n, one each, in the order of the page
MovesCover(n) ==
    /\ Len(moves) = Cardinality(SelectedUpTo(n))
    /\ \A k \in 1..Len(moves) : moves[k].item \in SelectedUpTo(n)
    /\ \A k \in 1..Len(moves) : \A l \in 1..Len(moves) :
          k < l => moves[k].item < moves[l].item

\* C16: in a pass a move is requested for every selected item of the page,
\* whatever the earlier moves returned; moved_count is the number of moves
\* that returned True; and the pass ends by returning normally (the unread
\* check, the normal sleep, or the return of start() after a signal).
C16_FailedMoveDoesNotAbort ==
    /\ [](pc = "move" =>
            /\ idx \in SelectedUpTo(Len(page))
            /\ MovesCover(idx - 1))
    /\ [](pc = "unread_check" => MovesCover(Len(page)))
    /\ [](moved_count = Cardinality({ k \in 1..Len(moves) : moves[k].ok }))
    /\ [][ (pc = "move" /\ pc' # "move") =>
              /\ \A j \in (idx + 1)..Len(page) : ~Selected(page[j], search_term)
              /\ pc' \in {"unread_check", "sleeping", "returned"}
              /\ pc' = "sleeping" => timeout' = check_interval ]_vars

\* C16 witness: of three fetched items the first and the third are selected,
\* the first move succeeded and the third failed; one move is counted and the
\* pass goes on to its unread check
C16_Witness ==
    /\ pc = "unread_check"
    /\ Len(page) = 3
    /\ SelectedUpTo(3) = {1, 3}
    /\ moves = << [item |-> 1, dest |-> folder_id, ok |-> TRUE],
                  [item |-> 3, dest |-> folder_id, ok |-> FALSE] >>
    /\ moved_count = 1

\* positions of a pass at which a remote request is made
RequestPcs == PassPcs \ {"pass_begin"}

\* C17: whatever the folder listing, folder creation, message listing, move
\* and unread requests of a pass answer, the pass goes on or returns
\* normally to start(), which sleeps for check_interval or, after a signal,
\* returns: start() never takes its error branch for them, not even when
\* only the unread check failed.
C17_PassNeverPropagates ==
    [][ (pc \in RequestPcs /\ pc' # "crashed") =>
          \/ pc' \in RequestPcs
          \/ pc' = "returned" /\ ~running
          \/ pc' = "sleeping" /\ running /\ timeout' = check_interval ]_vars

\* C17 witness: start() sleeps for check_interval after a pass in which a
\* request failed
C17_Witness ==
    /\ pc = "sleeping"
    /\ passFailed
    /\ timeout = check_interval
    /\ remaining = check_interval

\* the subject holds the term as a run of consecutive characters, letter
\* case apart
SubjectContains(subject, term) ==
    /\ subject # None
    /\ \E off \in 0..(Len(Chars(subject)) - Len(Chars(term))) :
          \A k \in 1..Len(Chars(term)) :
             LowerChar(Chars(subject)[off + k]) = LowerChar(Chars(term)[k])

\* the positions of the page for which this pass has called move_message
Requested ==
    { moves[k].item : k \in 1..Len(moves) }
        \cup (IF pc = "move" THEN {idx} ELSE {})

\* the positions of the page the loop has been through
Examined ==
    IF pc = "move" THEN 1..idx
    ELSE IF pc = "unread_check" THEN 1..Len(page)
    ELSE {}

\* C18 as stated: an item of the page is given to move_message exactly when
\* its subject contains the search term, letter case apart.
C18_SelectedIffSubjectMatches ==
    \A j \in Examined :
        (j \in Requested) <=> SubjectContains(page[j].subject, search_term)

\* C18 amended: an item of the page is given to move_message exactly when it
\* has an id and its subject contains the search term, letter case apart;
\* "standup" selects "Daily Standup Notes" and "standup!!", not "Stand Up".
C18_SelectedIffMatchesAndHasId ==
    /\ \A j \in Examined :
          (j \in Requested) <=>
              /\ page[j].id # 0
              /\ SubjectContains(page[j].subject, search_term)
    /\ Selected([id |-> 1, subject |-> "Daily Standup Notes"], "standup")
    /\ Selected([id |-> 1, subject |-> "standup!!"], "standup")
    /\ ~Selected([id |-> 1, subject |-> "Stand Up"], "standup")

\* C18 witness: the loop is through a page of which it moved an item whose
\* subject holds the term in another letter case and left one whose subject
\* holds "Standup" in one word
C18_Witness ==
    /\ pc = "unread_check"
    /\ \E j \in Requested : page[j].subject = "RE: Daily Stand Up"
    /\ \E j \in Examined \ Requested : page[j].subject = "Daily Standup"

\* C19: a pass begins only after start()'s startup or after a sleep that ran
\* to its timeout with no signal; the requests of a pass follow only its own
\* beginning; a pass that ends is followed by a sleep of the whole timeout or
\* by the return of start(); a sleep during which the signal arrived is
\* followed by no pass.
C19_OneSleepBetweenPasses ==
    [][ /\ (pc' = "pass_begin" /\ pc # "pass_begin") =>
              \/ pc = "auth_done"
              \/ pc = "sleeping" /\ remaining = 0 /\ ~shutdown_event
        /\ (pc' \in RequestPcs) => (pc \in PassPcs)
        /\ (pc \in PassPcs /\ pc' \notin PassPcs /\ pc' # "crashed") =>
              \/ pc' = "returned"
              \/ pc' = "sleeping" /\ timeout' > 0 /\ remaining' = timeout'
        /\ (pc = "sleeping" /\ shutdown_event /\ pc' # "crashed") =>
              pc' \in {"sleeping", "returned"} ]_vars

\* C19 witness: a pass begins after the sleep that followed an earlier pass
\* of this process has run out
C19_Witness ==
    /\ pc = "pass_begin"
    /\ passFailed
    /\ running
    /\ timeout = 0
    /\ remaining = 0

\* C20: the request of authenticate() is made only by the startup call, once
\* per process; in the loop the flag is set and stays set, no call of
\* authenticate() makes its request, and token.json is not written.
C20_NoReauthentication ==
    /\ [](pc \in LoopPcs => (authenticated /\ startAuth = "ok"))
    /\ [](pc = "probe" => startAuth = "pending")
    /\ [][ (startAuth # "pending" /\ pc' # "construct") =>
              startAuth' = startAuth ]_vars
    /\ [][ (pc \in LoopPcs /\ pc' # "crashed") =>
              /\ pc' # "probe"
              /\ authenticated'
              /\ token_file' = token_file
              /\ persisted' = persisted ]_vars

\* C20 witness: the unread check of a pass has gone on to its own request
\* after its call of authenticate()
C20_Witness ==
    /\ pc = "unread_check"
    /\ call.src = "cache"
    /\ authenticated
    /\ startAuth = "ok"

\* a step of the signal handler: the run state changes and the task stays
\* where it is
HandlerStep ==
    /\ pc' = pc
    /\ pc \notin EndPcs
    /\ <<running, shutdown_event>>' # <<running, shutdown_event>>

\* C21: a step of the signal handler clears running and sets shutdown_event
\* and does nothing else: it writes nothing to stdout and changes neither
\* token.json, the authenticated flag, the timeout of the sleep or what is
\* left of it, the request in flight, the mailbox nor the pass.
C21_HandlerOnlySetsRunState ==
    [][ HandlerStep =>
          /\ ~running'
          /\ shutdown_event'
          /\ UNCHANGED <<handlerPrinted, env, pc, handlers, timeout, remaining,
                         exitStatus, startAuth, authenticated, token_file, now,
                         call, persisted, saveOutcome, nFolders, folder_id,
                         subject_result, page, idx, moved_count, moves, passFailed>> ]_vars

\* C22: once the handler has set the event no pass begins; a pass during
\* which it was set is followed by the return of start(), with no sleep.
C22_NoPassAfterSignal ==
    [][ (handlers /\ shutdown_event /\ pc \notin EndPcs /\ pc' # "crashed") =>
          /\ pc' = "pass_begin" => pc = "pass_begin"
          /\ (pc \in PassPcs /\ pc' \notin PassPcs) => pc' = "returned" ]_vars

\* C22 witness: the handler has run while the pass listed the messages
C22_Witness ==
    /\ pc = "list_messages"
    /\ handlers
    /\ shutdown_event
    /\ ~running

\* positions of process_emails_by_subject
SubjectPcs == {"list_folders", "create_folder", "list_messages", "move"}

\* C23: a pass that begins with shutdown_event set makes no request; a pass
\* during whose classify-and-move step the event is set does not go on to
\* the unread check, and no unread request starts with the event set.
C23_EventCheckedBeforeEachStep ==
    /\ [][ /\ (pc = "pass_begin" /\ shutdown_event) =>
                 (pc' \notin RequestPcs /\ call' = NoCall)
           /\ (pc \in SubjectPcs /\ shutdown_event) =>
                 pc' # "unread_check" ]_vars
    /\ []((pc = "unread_check" /\ call = NoCall) => ~shutdown_event)

\* C23 witness: a pass called with the event set by stop() has returned
\* without a request
C23_Witness ==
    /\ pc = "returned"
    /\ shutdown_event
    /\ ~handlerPrinted
    /\ call = NoCall
    /\ ~passFailed

\* C24: every item given to move_message has a subject, an id and a subject
\* that contains the search term; no item is given to it twice in a pass;
\* every move names the folder id that ensure_folder_exists returned, the id
\* of a folder of the mailbox with the target name.
C24_MovesOnlyMatchingItems ==
    /\ \A j \in Requested :
          /\ page[j].subject # None
          /\ page[j].id # 0
          /\ SubjectContains(page[j].subject, search_term)
    /\ \A k \in 1..Len(moves) : \A l \in 1..Len(moves) :
          k # l => moves[k].item # moves[l].item
    /\ pc = "move" => \A k \in 1..Len(moves) : moves[k].item # idx
    /\ Requested # {} => folder_id \in 1..nFolders
    /\ \A k \in 1..Len(moves) : moves[k].dest = folder_id

\* C24 witness: of three items the first has no subject, the second a
\* matching subject and no id, the third was moved to the second folder of
\* the mailbox
C24_Witness ==
    /\ pc = "unread_check"
    /\ Len(page) = 3
    /\ page[1].subject = None
    /\ page[2].id = 0
    /\ SubjectContains(page[2].subject, search_term)
    /\ folder_id = 2
    /\ moves = << [item |-> 3, dest |-> 2, ok |-> TRUE] >>

\* positions of ensure_folder_exists
EnsurePcs == {"list_folders", "create_folder"}

\* C25: messages are listed and moved only with the id of a folder in hand;
\* when ensure_folder_exists ends with no folder or a folder without id,
\* process_emails_by_subject has returned, with False, no page fetched and
\* no move made.
C25_NoFolderNoListing ==
    /\ [](pc \in {"list_messages", "move"} => folder_id \in 1..nFolders)
    /\ [][ (pc \in EnsurePcs /\ pc' \notin EnsurePcs /\ pc' # "list_messages") =>
              /\ pc' \in {"unread_check", "returned"}
              /\ pc' = "unread_check" => subject_result' = "False"
              /\ folder_id' = 0
              /\ page' = <<>>
              /\ moves' = <<>> ]_vars

\* C25 witness: the folder that was found has no id; the pass is at its
\* unread check, process_emails_by_subject returned False, nothing was
\* listed or moved and no request failed
C25_Witness ==
    /\ pc = "unread_check"
    /\ subject_result = "False"
    /\ folder_id = 0
    /\ nFolders > 0
    /\ ~passFailed
    /\ page = <<>>
    /\ moves = <<>>

\* C26: when the request of authenticate() raises or is answered with no
\* user, authenticate() returns False, _authenticated stays false, so that a
\* later authenticate() makes the request again, and token.json and the
\* credential stored in it are what they were.
C26_FailedAuthenticateChangesNothing ==
    [][ (pc = "probe" /\ call # NoCall /\ startAuth' = "failed") =>
          /\ pc' = "auth_done"
          /\ ~authenticated'
          /\ AfterAuthenticate(authenticated', "list_messages") = "probe"
          /\ token_file' = token_file
          /\ persisted' = persisted
          /\ saveOutcome' = saveOutcome ]_vars

\* C26 witness: authenticate() has failed on a start that found a stored
\* credential; the credential is still stored and the flag is not set
C26_Witness ==
    /\ pc = "auth_done"
    /\ startAuth = "failed"
    /\ ~authenticated
    /\ token_file.exists
    /\ persisted # NoToken
    /\ saveOutcome = "none"

====
